---------------------------- MODULE Spec2Model ----------------------------
(***************************************************************************)
(* Streak / 30-day-cycle consistency engine of the kn0xfit log backend.    *)
(*                                                                         *)
(* The record store is the table consistency_record, a set of rows.  The   *)
(* table carries no unique constraint on (user_id, date).  The primary key *)
(* id is never read by the logic; only its uniqueness matters, so a row's  *)
(* id is its position among the rows of its (user_id, date) in insertion   *)
(* order.  Calendar dates are day numbers (integers); a timedelta is a     *)
(* difference of day numbers.                                              *)
(* A query ending in .first() yields None on an empty result and otherwise *)
(* one of the rows that sort first; SQL leaves the choice among equal rows *)
(* open, so such a query is the set of rows it may yield.                  *)
(***************************************************************************)
EXTENDS Integers, FiniteSets, Sequences, TLC

VARIABLES
    records,    \* the table consistency_record: a set of rows
    today,      \* date.today(), as a day number
    last,       \* the request served last and what it did
    reqs,       \* requests in flight (used by the concurrent specification)
    calls,      \* the last calls of get_motivational_message and their results
    is_active,  \* the column is_active of the table user
    slot,       \* the part of the day the wall clock is in
    running,    \* notification_service.running
    jobs,       \* schedule.jobs: the job table of the schedule library
    threads,    \* the timer threads start() has spawned, in spawning order
    sweeps,     \* the sweeps in flight, by the thread that runs them
    request     \* the body of the last POST /update and its HTTP status

\* The state of the message selector and of the notification service
others == <<calls, is_active, slot, running, jobs, threads, sweeps>>

vars == <<records, today, last, reqs, others, request>>

-----------------------------------------------------------------------------
(* Program constants *)

CycleLength == 30

(* Bounds of the model *)

MaxRecords == 2      \* rows the table may hold
MaxReqs == 2         \* requests in flight at once (concurrent specification)

Users == {"u1"}

\* The rows of the table user (the sweeps of the notification service visit
\* them all; the requests modelled are those of Users)
UserTable == {"u1", "u2"}
Types == {"workout", "diet"}

None == [none |-> TRUE]

-----------------------------------------------------------------------------
(* The record store *)

\* query.filter_by(user_id=u, date=d)
FilterBy(recs, u, d) == {r \in recs : r.user_id = u /\ r.date = d}

\* query.filter_by(user_id=u)
UserRows(recs, u) == {r \in recs : r.user_id = u}

\* The primary key the INSERT gives a row of (u, d)
NewId(recs, u, d) == Cardinality(FilterBy(recs, u, d)) + 1

\* ConsistencyRecord(user_id=..., date=..., cycle_start=...) with the column
\* defaults the INSERT applies.
ConsistencyRecord(new_id, u, d, cs) ==
    [id |-> new_id, user_id |-> u, date |-> d,
     workout_logged |-> FALSE, diet_logged |-> FALSE,
     streak_day |-> 0, cycle_start |-> cs]

\* db.session.add(record)
SessionAdd(recs, r) == recs \cup {r}

\* An attribute change of one row, written back by the ORM for that row only.
SessionReplace(recs, old, new) == (recs \ {old}) \cup {new}

\* .first(): None on an empty result, else one of the candidate rows
First(S) == IF S = {} THEN {None} ELSE S

\* Mutant: the latest row is sought among the rows of every user.
LatestRowsOfAnyUser(recs, u) ==
    {r \in recs : \A q \in recs : q.date <= r.date}

\* query.filter_by(user_id=u).order_by(date.desc()): the rows that sort first
LatestRows(recs, u) ==
    {r \in UserRows(recs, u) : \A q \in UserRows(recs, u) : q.date <= r.date}

IsActive(r) == r.workout_logged \/ r.diet_logged

IsComplete(r) == r.workout_logged /\ r.diet_logged

-----------------------------------------------------------------------------
(* StreakCalculator *)

\* Mutant: a day counts only when both flags are set.
RECURSIVE StreakWalkBothFlags(_, _, _)
StreakWalkBothFlags(recs, u, check_date) ==
    UNION {IF record # None /\ (record.workout_logged /\ record.diet_logged)
             THEN {1 + k : k \in StreakWalkBothFlags(recs, u, check_date - 1)}
             ELSE {0}
           : record \in First(FilterBy(recs, u, check_date))}

\* The loop of calculate_streak from check_date on: the counts it may return.
\* It stops at the first day whose .first() row is None or inactive.
RECURSIVE StreakWalk(_, _, _)
StreakWalk(recs, u, check_date) ==
    UNION {IF record # None /\ (record.workout_logged \/ record.diet_logged)
             THEN {1 + k : k \in StreakWalk(recs, u, check_date - 1)}
             ELSE {0}
           : record \in First(FilterBy(recs, u, check_date))}

\* Mutant: the walk starts at today instead of yesterday.
calculate_streak_from_today(recs, u, t) == StreakWalk(recs, u, t)

\* calculate_streak(user_id) of the routes, evaluated on day t
calculate_streak(recs, u, t) == StreakWalk(recs, u, t - 1)

\* NotificationService._calculate_streak(user_id), evaluated on day t
RECURSIVE SchedulerStreakWalk(_, _, _)
SchedulerStreakWalk(recs, u, check_date) ==
    UNION {IF record # None /\ (record.workout_logged \/ record.diet_logged)
             THEN {1 + k : k \in SchedulerStreakWalk(recs, u, check_date - 1)}
             ELSE {0}
           : record \in First(FilterBy(recs, u, check_date))}

_calculate_streak(recs, u, t) == SchedulerStreakWalk(recs, u, t - 1)

\* The rows of get_streak's query in ascending date order, as a sequence.
\* Rows of equal date (duplicates) are taken in one fixed order.
RECURSIVE SortAsc(_)
SortAsc(S) ==
    IF S = {} THEN <<>>
    ELSE LET r == CHOOSE x \in S : \A y \in S : x.date <= y.date
         IN  <<r>> \o SortAsc(S \ {r})

\* Mutant: the loop returns the running counter instead of the maximum.
RECURSIVE BestLoopReturnsCounter(_, _, _, _)
BestLoopReturnsCounter(rows, i, temp_streak, best) ==
    IF i > Len(rows) THEN temp_streak
    ELSE IF rows[i].workout_logged \/ rows[i].diet_logged
         THEN BestLoopReturnsCounter(rows, i + 1, temp_streak + 1, best)
         ELSE BestLoopReturnsCounter(rows, i + 1, 0, best)

\* Mutant: the loop counts only the rows with both flags.
RECURSIVE BestLoopCountsComplete(_, _, _, _)
BestLoopCountsComplete(rows, i, temp_streak, best_streak) ==
    IF i > Len(rows) THEN best_streak
    ELSE IF rows[i].workout_logged /\ rows[i].diet_logged
         THEN BestLoopCountsComplete(rows, i + 1, temp_streak + 1,
                  IF temp_streak + 1 > best_streak THEN temp_streak + 1
                                                   ELSE best_streak)
         ELSE BestLoopCountsComplete(rows, i + 1, 0, best_streak)

\* The best-streak loop of get_streak over the sorted rows from index i on,
\* with the running counter temp_streak and the maximum so far best_streak.
RECURSIVE BestLoop(_, _, _, _)
BestLoop(rows, i, temp_streak, best_streak) ==
    IF i > Len(rows) THEN best_streak
    ELSE IF rows[i].workout_logged \/ rows[i].diet_logged
         THEN BestLoop(rows, i + 1, temp_streak + 1,
                       IF temp_streak + 1 > best_streak THEN temp_streak + 1
                                                        ELSE best_streak)
         ELSE BestLoop(rows, i + 1, 0, best_streak)

best_streak(recs, u) == BestLoop(SortAsc(UserRows(recs, u)), 1, 0, 0)

-----------------------------------------------------------------------------
(* CycleManager *)

\* Mutant: a new row always joins the cycle of the latest row.
NewCycleStartNeverRenews(latest_record, target_date) ==
    IF latest_record # None THEN latest_record.cycle_start ELSE target_date

\* Mutant: the cycle is renewed only after more than 30 days.
NewCycleStartOffByOne(latest_record, target_date) ==
    IF latest_record # None
       /\ (target_date - latest_record.cycle_start) <= CycleLength
    THEN latest_record.cycle_start
    ELSE target_date

\* The cycle_start get_or_create_consistency_record gives a new row, from
\* the latest row (or None) and the target date.
NewCycleStart(latest_record, target_date) ==
    IF latest_record # None
       /\ (target_date - latest_record.cycle_start) < CycleLength
    THEN latest_record.cycle_start
    ELSE target_date

\* Mutant: the lookup of an existing row is skipped; a row is always created.
get_or_create_always_creates(recs, u, target_date) ==
    {LET new == ConsistencyRecord(NewId(recs, u, target_date), u, target_date,
                                  NewCycleStart(latest_record, target_date))
     IN  [record |-> new, created |-> TRUE, session |-> SessionAdd(recs, new)]
     : latest_record \in First(LatestRows(recs, u))}

\* Mutant: a row that exists starts a new cycle on its own date.
get_or_create_renews_cycle(recs, u, target_date) ==
    UNION {IF record # None
             THEN {LET renewed == [record EXCEPT !.cycle_start = target_date]
                   IN  [record |-> renewed, created |-> FALSE,
                        session |-> SessionReplace(recs, record, renewed)]}
             ELSE {LET new == ConsistencyRecord(NewId(recs, u, target_date),
                                   u, target_date,
                                   NewCycleStart(latest_record, target_date))
                   IN  [record |-> new, created |-> TRUE,
                        session |-> SessionAdd(recs, new)]
                   : latest_record \in First(LatestRows(recs, u))}
           : record \in First(FilterBy(recs, u, target_date))}

\* get_or_create_consistency_record(user_id, target_date): the outcomes it
\* may have: the row returned, whether it was created, and the session's
\* view of the table (with the pending row added).
get_or_create_consistency_record(recs, u, target_date) ==
    UNION {IF record # None
             THEN {[record |-> record, created |-> FALSE, session |-> recs]}
             ELSE {LET new == ConsistencyRecord(NewId(recs, u, target_date),
                                   u, target_date,
                                   NewCycleStart(latest_record, target_date))
                   IN  [record |-> new, created |-> TRUE,
                        session |-> SessionAdd(recs, new)]
                   : latest_record \in First(LatestRows(recs, u))}
           : record \in First(FilterBy(recs, u, target_date))}

\* Mutant: setting one flag clears the other.
SetFlagExclusive(r, upload_type) ==
    IF upload_type = "workout"
    THEN [r EXCEPT !.workout_logged = TRUE, !.diet_logged = FALSE]
    ELSE [r EXCEPT !.diet_logged = TRUE, !.workout_logged = FALSE]

\* record.workout_logged = True / record.diet_logged = True
SetFlag(r, upload_type) ==
    IF upload_type = "workout" THEN [r EXCEPT !.workout_logged = TRUE]
                               ELSE [r EXCEPT !.diet_logged = TRUE]

-----------------------------------------------------------------------------
(* ConsistencyAggregator: the read queries of GET /data, evaluated on day t *)

Max(a, b) == IF a > b THEN a ELSE b
Min(a, b) == IF a < b THEN a ELSE b

\* The rows with start_date <= date <= end_date
WindowRows(recs, u, start_date, end_date) ==
    {r \in UserRows(recs, u) : r.date >= start_date /\ r.date <= end_date}

\* round(n / d, 0) for integers n >= 0, d > 0: the nearest integer, a tie
\* going to the even neighbour.
RoundHalfEven(n, d) ==
    LET q == n \div d
        r == n % d
    IN  IF 2 * r < d THEN q
        ELSE IF 2 * r > d THEN q + 1
        ELSE IF q % 2 = 0 THEN q ELSE q + 1

\* round(count / total * 100, 1), in tenths of a percent (333 is 33.3)
Percentage(count, total) == RoundHalfEven(1000 * count, total)

\* round((count / total_days * 100) if total_days > 0 else 0, 1)
PercentageOrZero(count, total_days) ==
    IF total_days > 0 THEN Percentage(count, total_days) ELSE 0

\* Mutant: both_logged_days counts the rows with either flag set.
statisticsCountsEither(recs, u, t) ==
    LET rows == WindowRows(recs, u, t - (CycleLength - 1), t)
        total_days == Cardinality(rows)
        workout_days == Cardinality({r \in rows : r.workout_logged})
        diet_days == Cardinality({r \in rows : r.diet_logged})
        both_logged_days ==
            Cardinality({r \in rows : r.workout_logged \/ r.diet_logged})
    IN  [total_days |-> total_days,
         workout_days |-> workout_days,
         diet_days |-> diet_days,
         both_logged_days |-> both_logged_days,
         workout_percentage |-> PercentageOrZero(workout_days, total_days),
         diet_percentage |-> PercentageOrZero(diet_days, total_days),
         completion_percentage |->
             PercentageOrZero(both_logged_days, total_days)]

\* Mutant: the percentages are taken over the 30 days of the window.
statisticsOverWindow(recs, u, t) ==
    LET rows == WindowRows(recs, u, t - (CycleLength - 1), t)
        total_days == Cardinality(rows)
        workout_days == Cardinality({r \in rows : r.workout_logged})
        diet_days == Cardinality({r \in rows : r.diet_logged})
        both_logged_days ==
            Cardinality({r \in rows : r.workout_logged /\ r.diet_logged})
    IN  [total_days |-> total_days,
         workout_days |-> workout_days,
         diet_days |-> diet_days,
         both_logged_days |-> both_logged_days,
         workout_percentage |-> PercentageOrZero(workout_days, CycleLength),
         diet_percentage |-> PercentageOrZero(diet_days, CycleLength),
         completion_percentage |->
             PercentageOrZero(both_logged_days, CycleLength)]

\* The 'statistics' object over the last 30 days; the percentages are in
\* tenths of a percent.
statistics(recs, u, t) ==
    LET rows == WindowRows(recs, u, t - (CycleLength - 1), t)
        total_days == Cardinality(rows)
        workout_days == Cardinality({r \in rows : r.workout_logged})
        diet_days == Cardinality({r \in rows : r.diet_logged})
        both_logged_days ==
            Cardinality({r \in rows : r.workout_logged /\ r.diet_logged})
    IN  [total_days |-> total_days,
         workout_days |-> workout_days,
         diet_days |-> diet_days,
         both_logged_days |-> both_logged_days,
         workout_percentage |-> PercentageOrZero(workout_days, total_days),
         diet_percentage |-> PercentageOrZero(diet_days, total_days),
         completion_percentage |->
             PercentageOrZero(both_logged_days, total_days)]

(* GET /weekly-summary, evaluated on day t *)

WeekLength == 7

\* strftime('%A'); day number 0 is taken to be a Monday
DayNames ==
    <<"Monday", "Tuesday", "Wednesday", "Thursday", "Friday", "Saturday",
      "Sunday">>
day_name(d) == DayNames[(d % WeekLength) + 1]

\* next((r for r in rows if r.date == check_date), None)
NextWithDate(rows, check_date) ==
    LET hits == {i \in 1..Len(rows) : rows[i].date = check_date}
    IN  IF hits = {} THEN None
        ELSE rows[CHOOSE i \in hits : \A j \in hits : i <= j]

\* The entry appended to daily_summary for check_date
SummaryEntry(record, check_date) ==
    [date |-> check_date,
     day_name |-> day_name(check_date),
     workout_logged |-> IF record # None THEN record.workout_logged ELSE FALSE,
     diet_logged |-> IF record # None THEN record.diet_logged ELSE FALSE,
     both_complete |->
         IF record # None
         THEN record.workout_logged /\ record.diet_logged
         ELSE FALSE]

\* Mutant: the week starts seven days before today.
daily_summaryFromSevenBack(recs, u, t) ==
    LET end_date == t
        start_date == end_date - 7
        rows == SortAsc(WindowRows(recs, u, start_date, end_date))
    IN  [i \in 1..WeekLength |->
            SummaryEntry(NextWithDate(rows, start_date + (i - 1)),
                         start_date + (i - 1))]

\* The list daily_summary: one entry per day of the last 7 days
daily_summary(recs, u, t) ==
    LET end_date == t
        start_date == end_date - 6
        rows == SortAsc(WindowRows(recs, u, start_date, end_date))
    IN  [i \in 1..WeekLength |->
            SummaryEntry(NextWithDate(rows, start_date + (i - 1)),
                         start_date + (i - 1))]

\* The object weekly_stats computed from daily_summary; the percentages are
\* in tenths of a percent.
weekly_stats(recs, u, t) ==
    LET summary == daily_summary(recs, u, t)
        workout_days ==
            Cardinality({i \in 1..Len(summary) : summary[i].workout_logged})
        diet_days ==
            Cardinality({i \in 1..Len(summary) : summary[i].diet_logged})
        complete_days ==
            Cardinality({i \in 1..Len(summary) : summary[i].both_complete})
    IN  [workout_days |-> workout_days,
         diet_days |-> diet_days,
         complete_days |-> complete_days,
         workout_percentage |-> Percentage(workout_days, WeekLength),
         diet_percentage |-> Percentage(diet_days, WeekLength),
         completion_percentage |-> Percentage(complete_days, WeekLength)]

\* Mutant: the first day of a cycle is day 0.
CycleInfoOfFromZero(latest_record, t) ==
    IF latest_record # None
    THEN LET elapsed == t - latest_record.cycle_start
             cycle_day == IF elapsed > CycleLength THEN CycleLength ELSE elapsed
         IN  [cycle_start |-> latest_record.cycle_start,
              cycle_day |-> cycle_day,
              days_remaining |-> IF cycle_day > 0
                                 THEN Max(0, CycleLength - cycle_day)
                                 ELSE CycleLength]
    ELSE [cycle_start |-> None, cycle_day |-> 0, days_remaining |-> CycleLength]

\* Mutant: cycle_day is not capped at 30.
CycleInfoOfUncapped(latest_record, t) ==
    IF latest_record # None
    THEN LET cycle_day == (t - latest_record.cycle_start) + 1
         IN  [cycle_start |-> latest_record.cycle_start,
              cycle_day |-> cycle_day,
              days_remaining |-> IF cycle_day > 0
                                 THEN Max(0, CycleLength - cycle_day)
                                 ELSE CycleLength]
    ELSE [cycle_start |-> None, cycle_day |-> 0, days_remaining |-> CycleLength]

\* The 'cycle_info' object computed from the latest row (or None)
CycleInfoOf(latest_record, t) ==
    IF latest_record # None
    THEN LET elapsed == (t - latest_record.cycle_start) + 1
             cycle_day == IF elapsed > CycleLength THEN CycleLength ELSE elapsed
         IN  [cycle_start |-> latest_record.cycle_start,
              cycle_day |-> cycle_day,
              days_remaining |-> IF cycle_day > 0
                                 THEN Max(0, CycleLength - cycle_day)
                                 ELSE CycleLength]
    ELSE [cycle_start |-> None, cycle_day |-> 0, days_remaining |-> CycleLength]

\* The cycle infos GET /data may report
cycle_info(recs, u, t) == {CycleInfoOf(l, t) : l \in First(LatestRows(recs, u))}

-----------------------------------------------------------------------------
(* Requests served one at a time *)

\* The days on which requests arrive: the first three days of the clock and
\* the day one cycle after the first.
ClockDays == {0, 1, 2, CycleLength}

\* The dates a request may name: today, the two days before and after.
TargetDates == {today + k : k \in {0 - 2, 0 - 1, 0, 1, 2}}

\* No POST /update has been served yet.
NoRequest == [user |-> "none", json |-> FALSE, date |-> <<>>, type |-> "",
              status |-> 0]

Init ==
    /\ records = {}
    /\ today = 0
    /\ last = [op |-> "none", user |-> "none", date |-> 0, created |-> FALSE]
    /\ reqs = {}
    /\ calls = <<>>
    /\ is_active = [u \in UserTable |-> TRUE]
    /\ slot = "night"
    /\ running = FALSE
    /\ jobs = <<>>
    /\ threads = <<>>
    /\ sweeps = <<>>
    /\ request = NoRequest

\* Mutant: the streak is computed before the flag is set.
update_consistency_streak_before_flag(u, target_date, upload_type) ==
    /\ reqs = {}
    /\ \E g \in get_or_create_consistency_record(records, u, target_date) :
         /\ g.created => Cardinality(records) < MaxRecords
         /\ LET flagged == SetFlag(g.record, upload_type)
                flushed == SessionReplace(g.session, g.record, flagged)
            IN  \E streak \in calculate_streak(g.session, u, today) :
                  records' = SessionReplace(flushed, flagged,
                                 [flagged EXCEPT !.streak_day = streak])
         /\ last' = [op |-> "update", user |-> u, date |-> target_date,
                     created |-> g.created]
    /\ UNCHANGED <<today, reqs, others>>

\* Mutant: an upload for a flag that is set clears it.
update_resultToggles(recs, u, target_date, upload_type, t) ==
    UNION {LET flagged ==
                 IF upload_type = "workout"
                 THEN [g.record EXCEPT !.workout_logged = ~@]
                 ELSE [g.record EXCEPT !.diet_logged = ~@]
               flushed == SessionReplace(g.session, g.record, flagged)
           IN  {[records |-> SessionReplace(flushed, flagged,
                                 [flagged EXCEPT !.streak_day = streak]),
                 created |-> g.created] :
                    streak \in calculate_streak(flushed, u, t)}
           : g \in get_or_create_consistency_record(recs, u, target_date)}

\* Lines 189-200 of update_consistency on the table recs on day t: the
\* tables the commit may leave, and whether the row was created.
update_result(recs, u, target_date, upload_type, t) ==
    UNION {LET flagged == SetFlag(g.record, upload_type)
               flushed == SessionReplace(g.session, g.record, flagged)
           IN  {[records |-> SessionReplace(flushed, flagged,
                                 [flagged EXCEPT !.streak_day = streak]),
                 created |-> g.created] :
                    streak \in calculate_streak(flushed, u, t)}
           : g \in get_or_create_consistency_record(recs, u, target_date)}

\* POST /update with a well-formed date and type, through db.session.commit()
update_consistency(u, target_date, upload_type) ==
    /\ reqs = {}
    /\ \E res \in update_result(records, u, target_date, upload_type, today) :
         /\ res.created => Cardinality(records) < MaxRecords
         /\ records' = res.records
         /\ last' = [op |-> "update", user |-> u, date |-> target_date,
                     created |-> res.created]
    /\ UNCHANGED <<today, reqs, others>>

\* Mutant: the row is got or created, but its cycle_start is not overridden.
reset_cycle_no_override(u) ==
    /\ reqs = {}
    /\ \E g \in get_or_create_consistency_record(records, u, today) :
         /\ g.created => Cardinality(records) < MaxRecords
         /\ records' = g.session
         /\ last' = [op |-> "reset", user |-> u, date |-> today,
                     created |-> g.created]
    /\ UNCHANGED <<today, reqs, others, request>>

\* POST /reset-cycle, through db.session.commit()
reset_cycle(u) ==
    /\ reqs = {}
    /\ \E g \in get_or_create_consistency_record(records, u, today) :
         /\ g.created => Cardinality(records) < MaxRecords
         /\ records' = SessionReplace(g.session, g.record,
                           [g.record EXCEPT !.cycle_start = today])
         /\ last' = [op |-> "reset", user |-> u, date |-> today,
                     created |-> g.created]
    /\ UNCHANGED <<today, reqs, others, request>>

\* Days pass until the next request arrives.
Tick ==
    /\ reqs = {}
    /\ \E d \in ClockDays : d > today /\ today' = d
    /\ last' = [op |-> "tick", user |-> "none", date |-> today',
                created |-> FALSE]
    /\ UNCHANGED <<records, reqs, others, request>>

Next ==
    \/ \E u \in Users, d \in TargetDates, t \in Types :
         update_consistency(u, d, t) /\ UNCHANGED request
    \/ \E u \in Users : reset_cycle(u)
    \/ Tick

Spec == Init /\ [][Next]_vars

\* The same requests and clock, as the behaviours on whose tables the
\* algebraic properties of update are evaluated
SpecAlgebra == Init /\ [][Next]_vars

-----------------------------------------------------------------------------
(* Concurrent requests.  Each request runs in its own session and           *)
(* transaction; each query and the commit is one step.  A query sees the    *)
(* committed rows and the session's own pending changes.                    *)

\* The dates concurrent requests name
ConcDates == {today - 1, today}

\* The row of recs with the primary key of r
Current(recs, r) ==
    {x \in recs : x.id = r.id /\ x.user_id = r.user_id /\ x.date = r.date}

\* The UPDATE the ORM issues at flush: the columns the session changed since
\* it loaded the row, written over the row's committed values.
Merge(cur, loaded, mine) ==
    [cur EXCEPT
        !.workout_logged = IF mine.workout_logged # loaded.workout_logged
                           THEN mine.workout_logged ELSE @,
        !.diet_logged = IF mine.diet_logged # loaded.diet_logged
                        THEN mine.diet_logged ELSE @,
        !.streak_day = IF mine.streak_day # loaded.streak_day
                       THEN mine.streak_day ELSE @,
        !.cycle_start = IF mine.cycle_start # loaded.cycle_start
                        THEN mine.cycle_start ELSE @]

\* What the session of request q sees of the table
SessionView(q) ==
    IF q.record = None THEN records
    ELSE IF q.created THEN records \cup {q.record}
    ELSE (records \ Current(records, q.loaded)) \cup
             {Merge(cur, q.loaded, q.record) : cur \in Current(records, q.loaded)}

\* The change the handler makes to the row it got or created
Modify(q, r) ==
    IF q.type = "reset" THEN [r EXCEPT !.cycle_start = today]
                        ELSE SetFlag(r, q.type)

AfterRow(q) == IF q.type = "reset" THEN "commit" ELSE "streak"

\* A request arrives: POST /update (workout or diet) or POST /reset-cycle
Arrive(u, d, type) ==
    /\ Cardinality(reqs) < MaxReqs
    /\ type = "reset" => d = today
    /\ reqs' = reqs \cup
         {[rid |-> Cardinality(reqs) + 1, user |-> u, date |-> d, type |-> type,
           pc |-> "lookup", loaded |-> None, record |-> None,
           created |-> FALSE, check_date |-> today - 1, current_streak |-> 0]}
    /\ UNCHANGED <<records, today, last, others, request>>

\* get_or_create_consistency_record: the query for the row of (user, date)
Lookup(q) ==
    /\ q.pc = "lookup"
    /\ \E record \in First(FilterBy(records, q.user, q.date)) :
         reqs' = (reqs \ {q}) \cup
            {IF record # None
             THEN [q EXCEPT !.pc = AfterRow(q), !.loaded = record,
                            !.record = Modify(q, record)]
             ELSE [q EXCEPT !.pc = "latest"]}
    /\ UNCHANGED <<records, today, last, others, request>>

\* get_or_create_consistency_record: no row was found; the query for the
\* latest row, and the new row added to the session
Latest(q) ==
    /\ q.pc = "latest"
    /\ \E latest_record \in First(LatestRows(records, q.user)) :
         LET new == ConsistencyRecord(0, q.user, q.date,
                                      NewCycleStart(latest_record, q.date))
         IN  reqs' = (reqs \ {q}) \cup
                {[q EXCEPT !.pc = AfterRow(q), !.created = TRUE,
                           !.record = Modify(q, new)]}
    /\ UNCHANGED <<records, today, last, others, request>>

\* Mutant: the loop does not move check_date.
WalkStaysOnDate(q) ==
    /\ q.pc = "streak"
    /\ \E record \in First(FilterBy(SessionView(q), q.user, q.check_date)) :
         reqs' = (reqs \ {q}) \cup
            {IF record # None /\ (record.workout_logged \/ record.diet_logged)
             THEN [q EXCEPT !.current_streak = @ + 1]
             ELSE [q EXCEPT !.pc = "commit",
                            !.record.streak_day = q.current_streak]}
    /\ UNCHANGED <<records, today, last, others, request>>

\* calculate_streak: one turn of its loop (one query)
Walk(q) ==
    /\ q.pc = "streak"
    /\ \E record \in First(FilterBy(SessionView(q), q.user, q.check_date)) :
         reqs' = (reqs \ {q}) \cup
            {IF record # None /\ (record.workout_logged \/ record.diet_logged)
             THEN [q EXCEPT !.current_streak = @ + 1, !.check_date = @ - 1]
             ELSE [q EXCEPT !.pc = "commit",
                            !.record.streak_day = q.current_streak]}
    /\ UNCHANGED <<records, today, last, others, request>>

\* db.session.commit(): the INSERT of a created row, or the UPDATE of the
\* row that was found; the request then reports success.
Commit(q) ==
    /\ q.pc = "commit"
    /\ IF q.created
       THEN /\ Cardinality(records) < MaxRecords
            /\ records' = records \cup
                 {[q.record EXCEPT !.id = NewId(records, q.user, q.date)]}
       ELSE records' = SessionView(q)
    /\ reqs' = (reqs \ {q}) \cup {[q EXCEPT !.pc = "done"]}
    /\ UNCHANGED <<today, last, others, request>>

NextConc ==
    \/ \E u \in Users, d \in ConcDates, type \in Types \cup {"reset"} :
           Arrive(u, d, type)
    \/ \E q \in reqs : Lookup(q)
    \/ \E q \in reqs : Latest(q)
    \/ \E q \in reqs : Walk(q)
    \/ \E q \in reqs : Commit(q)

SpecConc == Init /\ [][NextConc]_vars

\* A request that was received is served to its end: the worker that runs
\* the handler keeps taking its steps.
SpecConcFair ==
    /\ Init
    /\ [][NextConc]_vars
    /\ WF_vars(\E q \in reqs : Lookup(q) \/ Latest(q) \/ Walk(q) \/ Commit(q))

-----------------------------------------------------------------------------
(* Requests of several users, served one at a time on one day *)

NextUsers ==
    \/ \E u \in UserTable, d \in TargetDates, t \in Types :
         update_consistency(u, d, t) /\ UNCHANGED request
    \/ \E u \in UserTable : reset_cycle(u)

SpecUsers == Init /\ [][NextUsers]_vars

-----------------------------------------------------------------------------
(* Requests served one at a time on a table that holds duplicate rows.  The *)
(* table starts as two concurrent first uploads for one date leave it: one  *)
(* row per request, each with the flag of its request.                      *)

\* The row a first upload creates in its own session on an empty table: its
\* streak is computed with the pending row in view.
FirstUpload(new_id, u, d, upload_type) ==
    LET flagged == SetFlag(ConsistencyRecord(new_id, u, d, d), upload_type)
    IN  [flagged EXCEPT
            !.streak_day = CHOOSE s \in calculate_streak({flagged}, u, today) :
                               TRUE]

DuplicateRows(u, d, first, second) ==
    {FirstUpload(1, u, d, first), FirstUpload(2, u, d, second)}

InitDup ==
    /\ today = 0
    /\ \E u \in Users, d \in ConcDates, first \in Types, second \in Types :
         records = DuplicateRows(u, d, first, second)
    /\ last = [op |-> "none", user |-> "none", date |-> 0, created |-> FALSE]
    /\ reqs = {}
    /\ calls = <<>>
    /\ is_active = [u \in UserTable |-> TRUE]
    /\ slot = "night"
    /\ running = FALSE
    /\ jobs = <<>>
    /\ threads = <<>>
    /\ sweeps = <<>>
    /\ request = NoRequest

SpecDup == InitDup /\ [][Next]_vars

-----------------------------------------------------------------------------
(* MotivationSelector: get_motivational_message(streak, missed_days).  A     *)
(* message is its text without the trailing emoji.  random.choice(pool) may  *)
(* return any member of the pool, so the function is the set of texts it may *)
(* return.                                                                   *)

\* The list missed_messages
missed_messages ==
    {"Don't let yesterday's miss define today's success!",
     "Every champion has setbacks. What matters is the comeback!",
     "Your journey continues today. Let's get back on track!",
     "One missed day doesn't erase your progress. Keep going!",
     "The best time to restart is now. You've got this!",
     "Consistency isn't perfection. It's persistence!",
     "Your future self is counting on today's effort!",
     "Small steps today, big results tomorrow!",
     "Turn today's motivation into tomorrow's habit!",
     "Progress over perfection, always!"}

\* Mutant: a streak of 7 still receives the message of the streaks below 7.
StreakTemplateSevenIncluded(streak) ==
    IF streak = 0
    THEN <<"Ready to start your fitness journey? Every expert was once a beginner!">>
    ELSE IF streak = 1
    THEN <<"Great start! Day 1 is complete. Momentum is building!">>
    ELSE IF streak <= 7
    THEN <<"Amazing! ", " days strong! You're building an incredible habit!">>
    ELSE IF streak < 14
    THEN <<"Fantastic ", "-day streak! You're in the zone!">>
    ELSE IF streak < 21
    THEN <<"Outstanding ", " days! You're forming a powerful habit!">>
    ELSE IF streak < 30
    THEN <<"Incredible ", "-day streak! You're a consistency champion!">>
    ELSE <<"Legendary ", "-day streak! You're an inspiration!">>

\* The if/elif chain over streak: the literal the branch returns, as the
\* text before and after the interpolated {streak} (one text when the
\* literal interpolates nothing).
StreakTemplate(streak) ==
    IF streak = 0
    THEN <<"Ready to start your fitness journey? Every expert was once a beginner!">>
    ELSE IF streak = 1
    THEN <<"Great start! Day 1 is complete. Momentum is building!">>
    ELSE IF streak < 7
    THEN <<"Amazing! ", " days strong! You're building an incredible habit!">>
    ELSE IF streak < 14
    THEN <<"Fantastic ", "-day streak! You're in the zone!">>
    ELSE IF streak < 21
    THEN <<"Outstanding ", " days! You're forming a powerful habit!">>
    ELSE IF streak < 30
    THEN <<"Incredible ", "-day streak! You're a consistency champion!">>
    ELSE <<"Legendary ", "-day streak! You're an inspiration!">>

\* The f-string: the value of {streak} formatted in decimal between the
\* literal's two texts
FormatStreak(template, streak) ==
    IF Len(template) = 1 THEN template[1]
    ELSE template[1] \o ToString(streak) \o template[2]

\* Mutant: the streak is looked at first, a missed day only below 30.
get_motivational_message_streak_first(streak, missed_days) ==
    IF missed_days > 0 /\ streak < 30 THEN missed_messages
    ELSE {FormatStreak(StreakTemplate(streak), streak)}

get_motivational_message(streak, missed_days) ==
    IF missed_days > 0 THEN missed_messages
    ELSE {FormatStreak(StreakTemplate(streak), streak)}

\* The arguments the selector is called with: the streaks at both sides of
\* every branch of the chain and one well above 30; no, one or two missed
\* days.
StreakInputs == {0, 1, 2, 6, 7, 13, 14, 20, 21, 29, 30, 45}
MissedInputs == {0, 1, 2}

\* The last two calls, oldest first
LastTwo(seq) == IF Len(seq) <= 2 THEN seq ELSE Tail(seq)

\* One call get_motivational_message(streak, missed_days) and its result
SelectMessage(streak, missed_days) ==
    /\ \E message \in get_motivational_message(streak, missed_days) :
           calls' = LastTwo(Append(calls,
                        [streak |-> streak, missed_days |-> missed_days,
                         message |-> message]))
    /\ UNCHANGED <<records, today, last, reqs, request,
                   is_active, slot, running, jobs, threads, sweeps>>

NextMsg ==
    \E streak \in StreakInputs, missed_days \in MissedInputs :
        SelectMessage(streak, missed_days)

SpecMsg == Init /\ [][NextMsg]_vars

-----------------------------------------------------------------------------
(* NotificationService: the sweeps send_daily_reminders and                  *)
(* send_weekly_motivation.  A sweep is run by a caller: caller 0 is a direct *)
(* call, caller i >= 1 is the i-th timer thread.  A sweep in flight is a     *)
(* record of the variable sweeps:                                            *)
(*   job      "daily" or "weekly"                                            *)
(*   today    the date read when the sweep began                             *)
(*   users    the result of the query for the active users                   *)
(*   visited  the users the loop has visited, in order                       *)
(*   out      the notifications handed to _store_notification, in order      *)
(*   failed   the users whose processing raised an exception                 *)
(*   phase    "loop" while the function runs, "raised" had it raised         *)
(* Message texts are without their trailing emoji.                           *)

\* user.username; a user is named by the one string that identifies the row
Username(u) == u

\* A function with one more, or one changed, entry
Put(f, key, value) ==
    [x \in DOMAIN f \cup {key} |-> IF x = key THEN value ELSE f[x]]

\* A function without the entry of key
Drop(f, key) == [x \in DOMAIN f \ {key} |-> f[x]]

\* Mutant: the query does not filter by is_active.
ActiveUsersUnfiltered == UserTable

\* User.query.filter_by(is_active=True).all()
ActiveUsers == {u \in UserTable : is_active[u]}

\* not (today_record and today_record.workout_logged)
missed_workout(today_record) ==
    ~(today_record # None /\ today_record.workout_logged)

\* not (today_record and today_record.diet_logged)
missed_diet(today_record) ==
    ~(today_record # None /\ today_record.diet_logged)

\* The list missed_items
missed_items(mw, md) ==
    (IF mw THEN <<"workout">> ELSE <<>>) \o (IF md THEN <<"diet">> ELSE <<>>)

\* ' and '.join(items)
JoinAnd(items) ==
    IF Len(items) = 0 THEN ""
    ELSE IF Len(items) = 1 THEN items[1]
    ELSE items[1] \o " and " \o items[2]

\* The list messages of _send_reminder_notification
reminder_messages(username, current_streak, items) ==
    {"Hey " \o username \o "! Don't break your "
         \o ToString(current_streak) \o "-day streak!",
     username \o ", your fitness journey needs you today!",
     "Time to log your " \o JoinAnd(items) \o ", " \o username \o "!",
     "Champions like you don't skip days, " \o username \o "!",
     "Your future self will thank you, " \o username \o "!",
     "Consistency is your superpower, " \o username \o "!",
     "Just a quick reminder, " \o username \o " - log your progress!",
     "You're doing amazing, " \o username \o "! Don't stop now!"}

\* _send_reminder_notification(user, missed_workout, missed_diet) on day t:
\* the notifications it may hand to _store_notification
_send_reminder_notification(recs, u, t, mw, md) ==
    {[user_id |-> u, message |-> m, notification_type |-> "daily_reminder"] :
        m \in UNION {reminder_messages(Username(u), current_streak,
                                       missed_items(mw, md)) :
                        current_streak \in _calculate_streak(recs, u, t)}}

\* f"{completion_rate}" for a rate in tenths: the float with one decimal
FormatRate(rate) == ToString(rate \div 10) \o "." \o ToString(rate % 10)

\* The three lists messages of _send_weekly_motivation_notification
top_messages(username, completion_rate, complete_days) ==
    {"Outstanding week, " \o username \o "! "
         \o FormatRate(completion_rate) \o "% completion rate!",
     "You're on fire, " \o username \o "! "
         \o ToString(complete_days) \o "/7 days completed!",
     "Incredible consistency, " \o username \o "! Keep it up!"}

middle_messages(username, completion_rate) ==
    {"Great progress, " \o username \o "! "
         \o FormatRate(completion_rate) \o "% this week!",
     "You're building strong habits, " \o username \o "!",
     "Solid week, " \o username \o "! Let's aim even higher!"}

low_messages(username) ==
    {"New week, fresh start, " \o username \o "! You've got this!",
     "Every expert was once a beginner, " \o username \o "!",
     "This week is your comeback week, " \o username \o "!"}

\* Mutant: the top list is for a rate of 90 % and more.
weekly_messagesTopFromNinety(username, completion_rate, complete_days) ==
    IF completion_rate >= 900
    THEN top_messages(username, completion_rate, complete_days)
    ELSE IF completion_rate >= 600
    THEN middle_messages(username, completion_rate)
    ELSE low_messages(username)

\* The list the completion rate (in tenths of a percent) selects
weekly_messages(username, completion_rate, complete_days) ==
    IF completion_rate >= 850
    THEN top_messages(username, completion_rate, complete_days)
    ELSE IF completion_rate >= 600
    THEN middle_messages(username, completion_rate)
    ELSE low_messages(username)

\* complete_days of _send_weekly_motivation_notification on day t
scheduler_complete_days(recs, u, t) ==
    LET end_date == t
        start_date == end_date - 6
        rows == WindowRows(recs, u, start_date, end_date)
    IN  Cardinality({r \in rows : r.workout_logged /\ r.diet_logged})

\* _send_weekly_motivation_notification(user) on day t: the notifications
\* it may hand to _store_notification
_send_weekly_motivation_notification(recs, u, t) ==
    LET complete_days == scheduler_complete_days(recs, u, t)
        completion_rate == Percentage(complete_days, 7)
    IN  {[user_id |-> u, message |-> m,
          notification_type |-> "weekly_motivation"] :
            m \in weekly_messages(Username(u), completion_rate,
                                  complete_days)}

\* The first lines of a sweep function: the date and the active users are
\* read.  A failing query raises inside the outer try; the except clause
\* logs and the loop is never entered.
NewSweep(job, raises) ==
    [job |-> job, today |-> today,
     users |-> IF raises THEN {} ELSE ActiveUsers,
     visited |-> <<>>, out |-> <<>>, failed |-> {}, phase |-> "loop"]

\* The users the loop has yet to visit
Pending(sw) == sw.users \ {sw.visited[i] : i \in 1..Len(sw.visited)}

\* Mutant: a user without a record for today is sent nothing.
DailyStepAbsentIsLogged(sw, u) ==
    UNION {IF today_record # None
              /\ (missed_workout(today_record) \/ missed_diet(today_record))
           THEN {[sw EXCEPT !.visited = Append(@, u), !.out = Append(@, n)] :
                    n \in _send_reminder_notification(
                              records, u, today,
                              missed_workout(today_record),
                              missed_diet(today_record))}
           ELSE {[sw EXCEPT !.visited = Append(@, u)]}
           : today_record \in First(FilterBy(records, u, sw.today))}

\* One iteration of the loop of send_daily_reminders that raises nothing:
\* the sweeps it may lead to
DailyStep(sw, u) ==
    UNION {IF missed_workout(today_record) \/ missed_diet(today_record)
           THEN {[sw EXCEPT !.visited = Append(@, u), !.out = Append(@, n)] :
                    n \in _send_reminder_notification(
                              records, u, today,
                              missed_workout(today_record),
                              missed_diet(today_record))}
           ELSE {[sw EXCEPT !.visited = Append(@, u)]}
           : today_record \in First(FilterBy(records, u, sw.today))}

\* One iteration of the loop of send_weekly_motivation that raises nothing
WeeklyStep(sw, u) ==
    {[sw EXCEPT !.visited = Append(@, u), !.out = Append(@, n)] :
        n \in _send_weekly_motivation_notification(records, u, today)}

\* Mutant: the exception of one user leaves the loop and the function.
StepRaisedUncaught(sw, u) ==
    [sw EXCEPT !.visited = Append(@, u), !.failed = @ \cup {u},
               !.users = {sw.visited[i] : i \in 1..Len(sw.visited)} \cup {u},
               !.phase = "raised"]

\* One iteration in which the lookup, the streak computation, the message
\* selection or the dispatch raises: an except clause of the iteration logs
\* the error, nothing is handed to _store_notification, the loop goes on.
StepRaised(sw, u) ==
    [sw EXCEPT !.visited = Append(@, u), !.failed = @ \cup {u}]

\* One iteration of the loop of the sweep of caller c, for user u
ProcessUser(c, u, raises) ==
    /\ c \in DOMAIN sweeps
    /\ sweeps[c].phase = "loop"
    /\ u \in Pending(sweeps[c])
    /\ \E sw \in IF raises THEN {StepRaised(sweeps[c], u)}
                  ELSE IF sweeps[c].job = "daily"
                       THEN DailyStep(sweeps[c], u)
                       ELSE WeeklyStep(sweeps[c], u) :
           sweeps' = Put(sweeps, c, sw)
    /\ UNCHANGED <<records, today, last, reqs, request,
                   calls, is_active, slot, running, jobs, threads>>

\* A direct call send_daily_reminders() or send_weekly_motivation()
CallSweep(job, raises) ==
    /\ 0 \notin DOMAIN sweeps
    /\ sweeps' = Put(sweeps, 0, NewSweep(job, raises))
    /\ UNCHANGED <<records, today, last, reqs, request,
                   calls, is_active, slot, running, jobs, threads>>

\* The direct call returns
ReturnSweep ==
    /\ 0 \in DOMAIN sweeps
    /\ Pending(sweeps[0]) = {}
    /\ sweeps' = Drop(sweeps, 0)
    /\ UNCHANGED <<records, today, last, reqs, request,
                   calls, is_active, slot, running, jobs, threads>>

(* The stores a sweep is run on: per user, the days before today that the   *)
(* user logged completely, each on its own day, and what is logged today.   *)

PriorDays == {0, 4, 5, 6}
TodayStatus == {"absent", "workout", "diet", "both"}
SweepDay == 6

\* The rows of user u on day t after k complete days and today's uploads
UserStore(u, t, k, status) ==
    {[id |-> 1, user_id |-> u, date |-> d,
      workout_logged |-> TRUE, diet_logged |-> TRUE,
      streak_day |-> d - (t - k), cycle_start |-> t - k] :
        d \in (t - k)..(t - 1)}
    \cup
    (IF status = "absent" THEN {}
     ELSE {[id |-> 1, user_id |-> u, date |-> t,
            workout_logged |-> status \in {"workout", "both"},
            diet_logged |-> status \in {"diet", "both"},
            streak_day |-> k, cycle_start |-> t - k]})

InitSweep ==
    /\ today = SweepDay
    /\ \E k \in [UserTable -> PriorDays], status \in [UserTable -> TodayStatus] :
           records = UNION {UserStore(u, today, k[u], status[u]) :
                               u \in UserTable}
    /\ is_active \in [UserTable -> BOOLEAN]
    /\ last = [op |-> "none", user |-> "none", date |-> 0, created |-> FALSE]
    /\ reqs = {}
    /\ calls = <<>>
    /\ slot = "evening"
    /\ running = FALSE
    /\ jobs = <<>>
    /\ threads = <<>>
    /\ sweeps = <<>>
    /\ request = NoRequest

NextSweep ==
    \/ \E job \in {"daily", "weekly"}, raises \in BOOLEAN :
           CallSweep(job, raises)
    \/ \E u \in UserTable, raises \in BOOLEAN : ProcessUser(0, u, raises)
    \/ ReturnSweep

SpecSweep == InitSweep /\ [][NextSweep]_vars

-----------------------------------------------------------------------------
(* NotificationService: start(), stop() and the timer threads.               *)
(*                                                                           *)
(* The wall clock is the date today and the part of the day, slot: "night"   *)
(* is 00:00 to 08:59, "day" is 09:00 to 19:59, "evening" is 20:00 to 23:59.  *)
(* An instant is a pair <<date, number of the slot>>.                        *)
(* A job of the schedule library is a record: id names the Job object (the   *)
(* number of the start() call that registered it, and its kind), at is the   *)
(* instant next_run.                                                         *)
(* A timer thread is a record: pc is where the thread is in _run_scheduler   *)
(*   "test"    at `while self.running`, before or in time.sleep(60)          *)
(*   "run"     about to call schedule.run_pending()                          *)
(*   "job"     in run_pending, about to run the first job of runnable        *)
(*   "sweep"   in the job function of the first job of runnable              *)
(*   "exited"  the loop was left                                             *)
(* runnable is the list of due jobs run_pending still has to run; stopped    *)
(* tells that stop() was called after the thread was spawned, and resumed    *)
(* that the thread went on, or ran a job, after that stop(); fired lists the *)
(* job functions the thread has called: the kind of the job, the date and    *)
(* the part of the day of the call, and self.running at the call.            *)

SlotNo(s) == CASE s = "night" -> 0 [] s = "day" -> 1 [] s = "evening" -> 2

\* datetime.now()
Now == <<today, SlotNo(slot)>>

\* a <= b for instants
NotAfter(a, b) == a[1] < b[1] \/ (a[1] = b[1] /\ a[2] <= b[2])

\* date.weekday(): Monday is 0 and Sunday is 6
weekday(d) == d % 7

\* next_run of every().day.at("20:00"): the next 20:00 after now
NextDaily ==
    IF slot = "evening" THEN <<today + 1, SlotNo("evening")>>
    ELSE <<today, SlotNo("evening")>>

\* next_run of every().sunday.at("09:00"): the next Sunday 09:00 after now
NextSunday ==
    IF weekday(today) = 6
    THEN IF slot = "night" THEN <<today, SlotNo("day")>>
         ELSE <<today + 7, SlotNo("day")>>
    ELSE <<today + (6 - weekday(today)), SlotNo("day")>>

\* Job._schedule_next_run()
NextRun(kind) == IF kind = "daily" THEN NextDaily ELSE NextSunday

\* Job.should_run
should_run(job) == NotAfter(job.at, Now)

\* sorted(jobs): ascending next_run, equal ones in list order
RECURSIVE SortJobs(_)
SortJobs(js) ==
    IF js = <<>> THEN <<>>
    ELSE LET i == CHOOSE x \in 1..Len(js) :
                     /\ \A y \in 1..Len(js) : NotAfter(js[x].at, js[y].at)
                     /\ \A y \in 1..(x - 1) : js[y].at # js[x].at
         IN  <<js[i]>> \o SortJobs(SubSeq(js, 1, i - 1)
                                      \o SubSeq(js, i + 1, Len(js)))

\* The threads whose loop has not been left
Alive == {t \in 1..Len(threads) : threads[t].pc # "exited"}

MaxThreads == 2      \* timer threads start() may spawn in all

\* Mutant: start() without the test of self.running.
startUnguarded ==
    /\ Len(threads) < MaxThreads
    /\ running' = TRUE
    /\ jobs' = jobs \o
           <<[id |-> <<Len(threads) + 1, "daily">>, kind |-> "daily",
              at |-> NextDaily],
             [id |-> <<Len(threads) + 1, "weekly">>, kind |-> "weekly",
              at |-> NextSunday]>>
    /\ threads' = Append(threads,
           [pc |-> "test", runnable |-> <<>>, stopped |-> FALSE,
            resumed |-> FALSE, fired |-> <<>>])
    /\ last' = [op |-> "start", user |-> "none", date |-> 0,
                created |-> ~running]
    /\ UNCHANGED <<records, today, reqs, request, calls, is_active, slot, sweeps>>

\* notification_service.start(); last.created tells whether the call found
\* the service stopped and started it
start ==
    /\ IF ~running
       THEN /\ Len(threads) < MaxThreads
            /\ running' = TRUE
            /\ jobs' = jobs \o
                   <<[id |-> <<Len(threads) + 1, "daily">>, kind |-> "daily",
                      at |-> NextDaily],
                     [id |-> <<Len(threads) + 1, "weekly">>,
                      kind |-> "weekly", at |-> NextSunday]>>
            /\ threads' = Append(threads,
                   [pc |-> "test", runnable |-> <<>>, stopped |-> FALSE,
                    resumed |-> FALSE, fired |-> <<>>])
       ELSE UNCHANGED <<running, jobs, threads>>
    /\ last' = [op |-> "start", user |-> "none", date |-> 0,
                created |-> ~running]
    /\ UNCHANGED <<records, today, reqs, request, calls, is_active, slot, sweeps>>

\* notification_service.stop(): the flag is cleared and the job table is
\* emptied; the thread is neither signalled nor joined
stop ==
    /\ running' = FALSE
    /\ jobs' = <<>>
    /\ threads' = [t \in 1..Len(threads) |->
                       IF threads[t].pc # "exited"
                       THEN [threads[t] EXCEPT !.stopped = TRUE]
                       ELSE threads[t]]
    /\ last' = [op |-> "stop", user |-> "none", date |-> 0,
                created |-> FALSE]
    /\ UNCHANGED <<records, today, reqs, request, calls, is_active, slot, sweeps>>

\* `while self.running`: the test on entry and after each time.sleep(60)
LoopTest(t) ==
    /\ threads[t].pc = "test"
    /\ threads' = [threads EXCEPT
           ![t].pc = IF running THEN "run" ELSE "exited",
           ![t].resumed = @ \/ (running /\ threads[t].stopped)]
    /\ UNCHANGED <<records, today, last, reqs, request,
                   calls, is_active, slot, running, jobs, sweeps>>

\* schedule.run_pending(): the due jobs are listed and sorted
RunPending(t) ==
    /\ threads[t].pc = "run"
    /\ LET runnable == SortJobs(SelectSeq(jobs, should_run))
       IN  threads' = [threads EXCEPT
               ![t].runnable = runnable,
               ![t].pc = IF runnable = <<>> THEN "test" ELSE "job"]
    /\ UNCHANGED <<records, today, last, reqs, request,
                   calls, is_active, slot, running, jobs, sweeps>>

\* Job.run() calls the job function: a sweep begins
FireJob(t, raises) ==
    /\ threads[t].pc = "job"
    /\ sweeps' = Put(sweeps, t, NewSweep(Head(threads[t].runnable).kind,
                                         raises))
    /\ threads' = [threads EXCEPT
           ![t].pc = "sweep",
           ![t].resumed = @ \/ threads[t].stopped,
           ![t].fired = Append(@, [kind |-> Head(threads[t].runnable).kind,
                                   day |-> today, slot |-> slot,
                                   running |-> running])]
    /\ UNCHANGED <<records, today, last, reqs, request,
                   calls, is_active, slot, running, jobs>>

\* The job function returns: Job.run() sets next_run of the Job object,
\* which the job table may hold no more, and run_pending goes on
JobDone(t) ==
    /\ threads[t].pc = "sweep"
    /\ Pending(sweeps[t]) = {}
    /\ sweeps' = Drop(sweeps, t)
    /\ LET job == Head(threads[t].runnable)
       IN  jobs' = [i \in 1..Len(jobs) |->
                       IF jobs[i].id = job.id
                       THEN [jobs[i] EXCEPT !.at = NextRun(job.kind)]
                       ELSE jobs[i]]
    /\ threads' = [threads EXCEPT
           ![t].runnable = Tail(@),
           ![t].pc = IF Tail(threads[t].runnable) = <<>>
                     THEN "test" ELSE "job"]
    /\ UNCHANGED <<records, today, last, reqs, request,
                   calls, is_active, slot, running>>

\* The days the clock of the scheduler runs through: a Sunday and the
\* Monday after it
SchedDays == {6, 7}

\* Thread t does nothing more in the current part of the day: it has left
\* the loop, or it is in a job function, which may take any time, or it
\* sleeps and its polls, one a minute, find the service running and no job
\* due.
Settled(t) ==
    \/ threads[t].pc \in {"exited", "sweep"}
    \/ /\ threads[t].pc = "test"
       /\ running
       /\ SelectSeq(jobs, should_run) = <<>>

\* The wall clock enters the next part of the day, hours after it entered
\* the current one
Advance ==
    /\ \A t \in 1..Len(threads) : Settled(t)
    /\ IF slot = "night" THEN slot' = "day" /\ today' = today
       ELSE IF slot = "day" THEN slot' = "evening" /\ today' = today
       ELSE /\ today + 1 \in SchedDays
            /\ slot' = "night" /\ today' = today + 1
    /\ UNCHANGED <<records, last, reqs, request,
                   calls, is_active, running, jobs, threads, sweeps>>

\* The service at process start, early on a Sunday, with no active user: a
\* sweep visits nobody, and a firing is the two steps FireJob and JobDone.
InitSched ==
    /\ records = {}
    /\ today = 6
    /\ last = [op |-> "none", user |-> "none", date |-> 0, created |-> FALSE]
    /\ reqs = {}
    /\ calls = <<>>
    /\ is_active = [u \in UserTable |-> FALSE]
    /\ slot = "night"
    /\ running = FALSE
    /\ jobs = <<>>
    /\ threads = <<>>
    /\ sweeps = <<>>
    /\ request = NoRequest

NextSched ==
    \/ start
    \/ stop
    \/ \E t \in 1..Len(threads) :
           \/ LoopTest(t)
           \/ RunPending(t)
           \/ \E raises \in BOOLEAN : FireJob(t, raises)
           \/ JobDone(t)
    \/ Advance

SpecSched == InitSched /\ [][NextSched]_vars

-----------------------------------------------------------------------------
(* POST /update with its request body.  A JSON string is the sequence of   *)
(* its characters; a key that is absent, null or the empty string is the   *)
(* empty sequence, which is what `not value` tests.  Day number 0 is       *)
(* 2024-01-01, a Monday.                                                    *)

Digits == ("0" :> 0) @@ ("1" :> 1) @@ ("2" :> 2) @@ ("3" :> 3) @@ ("4" :> 4)
          @@ ("5" :> 5) @@ ("6" :> 6) @@ ("7" :> 7) @@ ("8" :> 8) @@ ("9" :> 9)

IsDigits(s) == \A i \in 1..Len(s) : s[i] \in DOMAIN Digits

RECURSIVE Number(_)
Number(s) ==
    IF s = <<>> THEN 0
    ELSE 10 * Number(SubSeq(s, 1, Len(s) - 1)) + Digits[s[Len(s)]]

\* The pieces of s between the occurrences of sep
RECURSIVE Split(_, _)
Split(s, sep) ==
    IF \A i \in 1..Len(s) : s[i] # sep THEN <<s>>
    ELSE LET i == CHOOSE j \in 1..Len(s) :
                      s[j] = sep /\ \A k \in 1..(j - 1) : s[k] # sep
         IN  <<SubSeq(s, 1, i - 1)>> \o Split(SubSeq(s, i + 1, Len(s)), sep)

\* The directives of '%Y-%m-%d' as time.strptime matches them:
\* %Y is \d\d\d\d, %m is 1[0-2]|0[1-9]|[1-9], %d is
\* 3[0-1]|[1-2]\d|0[1-9]|[1-9]| [1-9].
MatchesY(f) == Len(f) = 4 /\ IsDigits(f)

MatchesM(f) == Len(f) \in {1, 2} /\ IsDigits(f) /\ Number(f) \in 1..12

MatchesD(f) ==
    \/ Len(f) \in {1, 2} /\ IsDigits(f) /\ Number(f) \in 1..31
    \/ Len(f) = 2 /\ f[1] = " " /\ IsDigits(Tail(f)) /\ Number(Tail(f)) \in 1..9

IsLeap(y) == y % 4 = 0 /\ (y % 100 # 0 \/ y % 400 = 0)

DaysInMonth(y, m) ==
    IF m = 2 THEN (IF IsLeap(y) THEN 29 ELSE 28)
    ELSE IF m \in {4, 6, 9, 11} THEN 30 ELSE 31

RECURSIVE DaysBeforeMonth(_, _)
DaysBeforeMonth(y, m) ==
    IF m = 1 THEN 0 ELSE DaysBeforeMonth(y, m - 1) + DaysInMonth(y, m - 1)

\* date(y, m, d).toordinal()
Ordinal(y, m, d) ==
    365 * (y - 1) + ((y - 1) \div 4) - ((y - 1) \div 100) + ((y - 1) \div 400)
    + DaysBeforeMonth(y, m) + d

DayNumber(y, m, d) == Ordinal(y, m, d) - Ordinal(2024, 1, 1)

\* datetime.strptime(text, '%Y-%m-%d').date(): the day it names, or ValueError
strptime(text) ==
    LET f == Split(text, "-")
        ValueError == [ok |-> FALSE, date |-> 0]
    IN  IF Len(f) # 3 THEN ValueError
        ELSE IF ~(MatchesY(f[1]) /\ MatchesM(f[2]) /\ MatchesD(f[3]))
        THEN ValueError
        ELSE LET y == Number(f[1])
                 m == Number(f[2])
                 d == Number(IF f[3][1] = " " THEN Tail(f[3]) ELSE f[3])
             IN  IF y < 1 \/ d > DaysInMonth(y, m) THEN ValueError
                 ELSE [ok |-> TRUE, date |-> DayNumber(y, m, d)]

\* The values of the key 'date' that requests carry
DateTexts ==
    { <<>>,
      <<"2", "0", "2", "4", "-", "0", "1", "-", "0", "1">>,
      <<"2", "0", "2", "4", "-", "0", "1", "-", "0", "2">>,
      <<"2", "0", "2", "4", "-", "1", "-", "2">>,
      <<"2", "0", "2", "4", "/", "0", "1", "/", "0", "2">>,
      <<"2", "4", "-", "0", "1", "-", "0", "2">>,
      <<"2", "0", "2", "4", "-", "1", "3", "-", "0", "1">>,
      <<"2", "0", "2", "4", "-", "0", "2", "-", "3", "0">> }

\* The values of the key 'type' that requests carry
TypeTexts == {"", "workout", "diet", "cardio"}

\* The bodies of the requests: no JSON body at all, or an object
Bodies ==
    {[json |-> FALSE, date |-> <<>>, type |-> ""]}
    \cup {[json |-> TRUE, date |-> d, type |-> t] :
            d \in DateTexts, t \in TypeTexts}

\* POST /update, the whole handler
post_update(u, data) ==
    LET Rejected(status) ==
            /\ request' = [user |-> u, json |-> data.json, date |-> data.date,
                           type |-> data.type, status |-> status]
            /\ last' = [op |-> "rejected", user |-> u, date |-> 0,
                        created |-> FALSE]
            /\ UNCHANGED <<records, today, reqs, others>>
    IN  /\ reqs = {}
        /\ IF ~data.json
           THEN Rejected(500)
           ELSE IF data.date = <<>> \/ data.type = ""
           THEN Rejected(400)
           ELSE IF data.type \notin Types
           THEN Rejected(400)
           ELSE IF ~strptime(data.date).ok
           THEN Rejected(400)
           ELSE /\ update_consistency(u, strptime(data.date).date, data.type)
                /\ request' = [user |-> u, json |-> data.json,
                               date |-> data.date, type |-> data.type,
                               status |-> 200]

NextPost ==
    \/ \E u \in Users, data \in Bodies : post_update(u, data)
    \/ Tick

SpecPost == Init /\ [][NextPost]_vars

-----------------------------------------------------------------------------
(* Properties of the requests served one at a time *)

\* The days on which a read query is evaluated: today, the days after it,
\* and the days one cycle after it.
QueryDays == {today + k : k \in {0, 1, 2, 3, CycleLength - 1, CycleLength}}

ActiveOn(recs, u, d) == \E r \in FilterBy(recs, u, d) : IsActive(r)

\* The numbers k such that the k days before t are active and the day
\* before them is not (no row, or a row with both flags false).
BackwardRun(recs, u, t) ==
    {k \in 0 .. Cardinality(recs) :
        /\ \A i \in 1 .. k : ActiveOn(recs, u, t - i)
        /\ ~ActiveOn(recs, u, t - (k + 1))}

\* C1: on every reachable record set and every query day t, current_streak
\* is the one number k such that days t-1 .. t-k each have an active row and
\* day t-(k+1) has no row or an inactive row (so 0 without rows), and the
\* scheduler's _calculate_streak returns the same value as calculate_streak.
C1_CurrentStreak ==
    \A u \in Users, t \in QueryDays :
        /\ Cardinality(BackwardRun(records, u, t)) = 1
        /\ calculate_streak(records, u, t) = BackwardRun(records, u, t)
        /\ _calculate_streak(records, u, t) = calculate_streak(records, u, t)
        /\ UserRows(records, u) = {} => calculate_streak(records, u, t) = {0}

\* C1 witness: the walk stopped at a missing day although an active row lies
\* beyond the gap: yesterday active, no row two days back, active three back.
C1_Witness ==
    \E u \in Users :
        /\ calculate_streak(records, u, today) = {1}
        /\ FilterBy(records, u, today - 2) = {}
        /\ ActiveOn(records, u, today - 3)

\* The lengths of the runs of consecutive entries, in ascending date order,
\* all of whose rows are active.
ActiveRunLengths(recs, u) ==
    {Cardinality(WindowRows(recs, u, a.date, b.date)) :
        <<a, b>> \in {p \in UserRows(recs, u) \X UserRows(recs, u) :
                        /\ p[1].date <= p[2].date
                        /\ \A r \in WindowRows(recs, u, p[1].date, p[2].date) :
                               IsActive(r)}}

SetMax(S) == CHOOSE x \in S : \A y \in S : y <= x

\* C2: best_streak is the greatest length of a run of consecutive entries
\* of the user's rows in ascending date order whose rows are all active (0
\* without such a run); a calendar date without a row does not end a run.
C2_BestStreak ==
    \A u \in Users :
        best_streak(records, u) = SetMax(ActiveRunLengths(records, u) \cup {0})

\* C2 witness: active rows at D1 and D3, no row at D2, and best_streak = 2.
C2_Witness ==
    \E u \in Users : \E a, b \in UserRows(records, u) :
        /\ b.date = a.date + 2
        /\ IsActive(a) /\ IsActive(b)
        /\ FilterBy(records, u, a.date + 1) = {}
        /\ best_streak(records, u) = 2

\* C3: when an update creates the row of (user, target_date), the row gets
\* cycle_start = target_date if the user had no row or the max-date row L
\* has target_date - L.cycle_start >= 30, and L.cycle_start otherwise
\* (negative gaps included); get-or-create hands the row out with both flags
\* false, so after the update only the logged flag is set.
C3_CreateCycleStart ==
    [][(last'.op = "update" /\ last'.created) =>
         LET u == last'.user
             d == last'.date
             L == LatestRows(records, u)
             expected == IF L = {} THEN {d}
                         ELSE {IF d - l.cycle_start >= CycleLength
                                 THEN d ELSE l.cycle_start : l \in L}
         IN  /\ FilterBy(records, u, d) = {}
             /\ \A g \in get_or_create_consistency_record(records, u, d) :
                    /\ g.created
                    /\ ~g.record.workout_logged /\ ~g.record.diet_logged
                    /\ {g.record.cycle_start} = expected
             /\ records' \ records \in
                    {{r} : r \in {x \in records' : x.user_id = u /\ x.date = d}}
             /\ \A r \in records' \ records :
                    /\ {r.cycle_start} = expected
                    /\ r.workout_logged # r.diet_logged
      ]_vars

\* C3 witness: an update has just created a row 30 or more days after the
\* cycle_start of another row, and the new row starts a cycle of its own.
C3_Witness ==
    /\ last.op = "update" /\ last.created
    /\ \E r \in FilterBy(records, last.user, last.date) :
       \E q \in UserRows(records, last.user) :
           /\ r.date - q.cycle_start >= CycleLength
           /\ r.cycle_start = r.date

\* C4 (as claimed): every stored row has cycle_start <= date.
C4_CycleStartNotAfterDate ==
    \A r \in records : r.cycle_start <= r.date

\* C5: with requests served one at a time there is at most one row for each
\* (user_id, date); a log for a date that has a row adds no row.
C5_OneRecordPerDay ==
    \A u \in Users : \A r \in UserRows(records, u) :
        FilterBy(records, u, r.date) = {r}

\* C5 witness: an update has just logged for a date that already had a row,
\* which now carries both flags.
C5_Witness ==
    /\ last.op = "update" /\ ~last.created
    /\ \E r \in FilterBy(records, last.user, last.date) : IsComplete(r)

\* C7: after reset_cycle on day T the user's row for T exists and has
\* cycle_start = T.
C7_ResetSetsCycleStart ==
    last.op = "reset" =>
        /\ FilterBy(records, last.user, today) # {}
        /\ \A r \in FilterBy(records, last.user, today) : r.cycle_start = today

\* C7 witness: a reset has just overridden the cycle of a row that existed
\* (it is active), while an earlier row still shows the running cycle that
\* began less than 30 days ago.
C7_Witness ==
    /\ last.op = "reset" /\ ~last.created
    /\ \E r \in FilterBy(records, last.user, today) :
       \E q \in UserRows(records, last.user) :
           /\ IsActive(r) /\ r.cycle_start = today
           /\ q.date < today /\ q.cycle_start < today
           /\ today - q.cycle_start < CycleLength

\* C8: an update or reset_cycle whose target date is today or later leaves
\* current_streak as it was, and current_streak depends only on the rows
\* dated before today.
C8_TodayExcluded ==
    [][\A u \in Users :
         /\ calculate_streak(records, u, today) =
                calculate_streak({r \in records : r.date < today}, u, today)
         /\ (last'.op \in {"update", "reset"} /\ last'.date >= today) =>
                calculate_streak(records', u, today) =
                    calculate_streak(records, u, today)
      ]_vars

\* C8 witness: an update has just logged for today while the streak that
\* ends yesterday is 1.
C8_Witness ==
    /\ last.op = "update" /\ last.date = today
    /\ ActiveOn(records, last.user, today)
    /\ calculate_streak(records, last.user, today) = {1}

\* The user's rows are a workout-only row at day D and a diet-only row at D+1.
WorkoutThenDiet(recs, u, D) ==
    /\ {r.date : r \in UserRows(recs, u)} = {D, D + 1}
    /\ \A r \in FilterBy(recs, u, D) : r.workout_logged /\ ~r.diet_logged
    /\ \A r \in FilterBy(recs, u, D + 1) : ~r.workout_logged /\ r.diet_logged

\* C9: with a workout-only row at D and a diet-only row at D+1, on day D+2
\* no day is complete (both_logged_days = 0) and current_streak = 2.
C9_DisjointDaysCount ==
    \A u \in Users :
        WorkoutThenDiet(records, u, today - 2) =>
            /\ statistics(records, u, today).both_logged_days = 0
            /\ calculate_streak(records, u, today) = {2}

\* C9 witness: the diet log for D+1 has just been served and it is day D+2.
C9_Witness ==
    /\ last.op = "update" /\ last.date = today - 1
    /\ WorkoutThenDiet(records, last.user, today - 2)

\* C10 (as claimed): with at least one row, cycle info uses the cycle_start
\* of the max-date row, cycle_day = min(30, t - cycle_start + 1) and
\* days_remaining = max(0, 30 - cycle_day).
C10_CycleInfoAsClaimed ==
    \A u \in Users, t \in QueryDays :
        UserRows(records, u) # {} =>
            \A info \in cycle_info(records, u, t) :
                /\ info.cycle_start \in
                       {l.cycle_start : l \in LatestRows(records, u)}
                /\ info.cycle_day =
                       Min(CycleLength, (t - info.cycle_start) + 1)
                /\ info.days_remaining = Max(0, CycleLength - info.cycle_day)

\* C10 (amended): as claimed, except that days_remaining is
\* max(0, 30 - cycle_day) only when cycle_day > 0, and 30 when cycle_day <= 0
\* (the max-date row's cycle starts after t).
C10_CycleInfo ==
    \A u \in Users, t \in QueryDays :
        UserRows(records, u) # {} =>
            \A info \in cycle_info(records, u, t) :
                /\ info.cycle_start \in
                       {l.cycle_start : l \in LatestRows(records, u)}
                /\ info.cycle_day =
                       Min(CycleLength, (t - info.cycle_start) + 1)
                /\ info.days_remaining =
                       IF info.cycle_day > 0
                       THEN Max(0, CycleLength - info.cycle_day)
                       ELSE CycleLength

\* C10 witness: on day today the running cycle is older than 30 days, so
\* cycle_day is capped at 30 and no day remains.
C10_Witness ==
    \E u \in Users : \E info \in cycle_info(records, u, today) :
        /\ UserRows(records, u) # {}
        /\ (today - info.cycle_start) + 1 > CycleLength
        /\ info.cycle_day = CycleLength
        /\ info.days_remaining = 0

\* C11: the statistics of GET /data cover exactly the user's rows dated in
\* [t - 29, t]; total_days is the number of those rows (not 30); each
\* percentage is its count divided by total_days, times 100, rounded to one
\* decimal (it lies within half a tenth of the exact quotient); with no row
\* in the window every percentage is 0.
C11_WindowStatistics ==
    \A u \in Users : \A t \in QueryDays :
        LET s == statistics(records, u, t)
            W == {r \in records : /\ r.user_id = u
                                  /\ r.date >= t - 29 /\ r.date <= t}
            Rounded(p, count) ==
                /\ p \in 0..1000
                /\ s.total_days = 0 => p = 0
                /\ s.total_days > 0 =>
                       /\ 2 * (p * s.total_days - 1000 * count) <= s.total_days
                       /\ 2 * (1000 * count - p * s.total_days) <= s.total_days
        IN  /\ s.total_days = Cardinality(W)
            /\ s.workout_days = Cardinality({r \in W : r.workout_logged})
            /\ s.diet_days = Cardinality({r \in W : r.diet_logged})
            /\ s.both_logged_days =
                   Cardinality({r \in W : r.workout_logged /\ r.diet_logged})
            /\ Rounded(s.workout_percentage, s.workout_days)
            /\ Rounded(s.diet_percentage, s.diet_days)
            /\ Rounded(s.completion_percentage, s.both_logged_days)

\* C11 witness: the user has a row older than the window and one row inside
\* it, with the workout logged and the diet not: total_days is 1, the
\* workout percentage is 100.0 and the completion percentage is 0.
C11_Witness ==
    \E u \in Users :
        LET s == statistics(records, u, today)
        IN  /\ \E r \in UserRows(records, u) : r.date < today - 29
            /\ s.total_days = 1
            /\ s.workout_percentage = 1000
            /\ s.completion_percentage = 0

\* C12: the weekly breakdown has exactly 7 entries, for the dates t - 6 to t
\* in ascending order; an entry whose date has no row of the user has all
\* three flags false, and an entry whose date has a row mirrors the row's
\* workout and diet flags, with both_complete being their conjunction.
C12_WeeklyBreakdown ==
    \A u \in Users : \A t \in QueryDays :
        LET s == daily_summary(records, u, t)
        IN  /\ Len(s) = 7
            /\ \A i \in 1..7 :
                   LET rows == {r \in records :
                                   r.user_id = u /\ r.date = s[i].date}
                   IN  /\ s[i].date = t - 7 + i
                       /\ rows = {} =>
                              /\ ~s[i].workout_logged
                              /\ ~s[i].diet_logged
                              /\ ~s[i].both_complete
                       /\ \A r \in rows :
                              /\ s[i].workout_logged = r.workout_logged
                              /\ s[i].diet_logged = r.diet_logged
                              /\ s[i].both_complete =
                                     (r.workout_logged /\ r.diet_logged)

\* C12 witness: four days ago the user logged the workout and the diet,
\* today only the workout; the other days of the week have no row.
C12_Witness ==
    \E u \in Users :
        LET s == daily_summary(records, u, today)
        IN  /\ s[3].both_complete /\ FilterBy(records, u, today - 4) # {}
            /\ s[7].workout_logged /\ ~s[7].both_complete
            /\ \A i \in {1, 2, 4, 5, 6} :
                   FilterBy(records, u, s[i].date) = {}

-----------------------------------------------------------------------------
(* Properties of concurrent requests *)

\* C6 (as claimed): when two or more requests for the same (user_id, date),
\* for which no row existed, have all reported success, the table holds
\* exactly one row for that (user_id, date) and the row carries every flag
\* those requests set.
C6_ConcurrentGetOrCreate ==
    \A u \in Users, d \in ConcDates :
        LET R == {q \in reqs : q.user = u /\ q.date = d}
        IN  (Cardinality(R) >= 2 /\ \A q \in R : q.pc = "done") =>
                /\ Cardinality(FilterBy(records, u, d)) = 1
                /\ \A r \in FilterBy(records, u, d) : \A q \in R :
                       /\ q.type = "workout" => r.workout_logged
                       /\ q.type = "diet" => r.diet_logged

-----------------------------------------------------------------------------
(* Properties of the message selector *)

\* The messages the chain over streak can return
StreakMessages == {FormatStreak(StreakTemplate(k), k) : k \in 0..50}

\* C13: whatever the streak, a call with missed_days > 0 returns one of the
\* ten comeback messages and never a message of the chain over streak; a
\* call with streak = 45 and missed_days = 1 does not return the
\* 'Legendary' message.
C13_MissedDayPool ==
    \A i \in 1..Len(calls) :
        calls[i].missed_days > 0 =>
            /\ calls[i].message \in missed_messages
            /\ Cardinality(missed_messages) = 10
            /\ calls[i].message \notin StreakMessages
            /\ calls[i].message #
                   "Legendary " \o ToString(calls[i].streak)
                       \o "-day streak! You're an inspiration!"

\* C13 witness: a call with streak = 45 and missed_days = 1 has returned.
C13_Witness ==
    \E i \in 1..Len(calls) :
        calls[i].streak = 45 /\ calls[i].missed_days = 1

\* The range of streaks that share a message, as [lo, hi), hi = -1 for no
\* upper end: 0, 1, [2,7), [7,14), [14,21), [21,30), [30,inf)
Buckets == {<<0, 1>>, <<1, 2>>, <<2, 7>>, <<7, 14>>, <<14, 21>>, <<21, 30>>,
            <<30, 0 - 1>>}
InBucket(k, b) == k >= b[1] /\ (b[2] = 0 - 1 \/ k < b[2])

\* The literals of the chain over streak
Templates == {StreakTemplate(k) : k \in 0..50}

\* Two calls returned instances of one template: one literal of the chain
\* yields both messages, each with its own streak filled in.
SameTemplate(c, d) ==
    \E t \in Templates : /\ c.message = FormatStreak(t, c.streak)
                          /\ d.message = FormatStreak(t, d.streak)

\* C14: with missed_days = 0 the message is a function of the streak: every
\* streak lies in exactly one of the buckets 0, 1, [2,7), [7,14), [14,21),
\* [21,30), [30,inf); two calls with the same streak return the same
\* message, and two calls return instances of the same template exactly
\* when their streaks lie in the same bucket.
C14_StreakBuckets ==
    \A i, j \in 1..Len(calls) :
        (calls[i].missed_days = 0 /\ calls[j].missed_days = 0) =>
            /\ Cardinality({b \in Buckets : InBucket(calls[i].streak, b)}) = 1
            /\ calls[i].streak = calls[j].streak =>
                   calls[i].message = calls[j].message
            /\ SameTemplate(calls[i], calls[j]) <=>
                   \E b \in Buckets : /\ InBucket(calls[i].streak, b)
                                       /\ InBucket(calls[j].streak, b)
            /\ calls[i].message \notin missed_messages

\* C14 witness: two calls without a missed day returned, one with streak 29
\* and one with streak 30, and their messages are of different templates.
C14_Witness ==
    /\ Len(calls) = 2
    /\ calls[1].missed_days = 0 /\ calls[1].streak = 29
    /\ calls[2].missed_days = 0 /\ calls[2].streak = 30
    /\ ~SameTemplate(calls[1], calls[2])

-----------------------------------------------------------------------------
(* Properties of one sweep *)

\* The notifications sweep sw has dispatched to user u, in order
SentTo(sw, u) == SelectSeq(sw.out, LAMBDA n : n.user_id = u)

\* The users sweep sw has visited, and those visited without an exception
Visited(sw) == {sw.visited[i] : i \in 1..Len(sw.visited)}
Processed(sw) == Visited(sw) \ sw.failed

CompleteDates(u, t) ==
    {d \in (t - 6)..t :
        \E r \in records : /\ r.user_id = u /\ r.date = d
                            /\ r.workout_logged /\ r.diet_logged}

\* rate (in tenths of a percent) is n / 7 * 100 rounded to one decimal
IsRateOf(rate, n) ==
    /\ 2 * (7 * rate - 1000 * n) <= 7
    /\ 2 * (1000 * n - 7 * rate) <= 7

\* C16: in the weekly job, the completion rate of a user is the number of
\* complete days in [today - 6, today] divided by 7, times 100, rounded to
\* one decimal; a rate of 85 or more selects the top list, a rate from 60
\* up to 85 the middle list, a lower rate the low list: 6 or 7 complete
\* days give a top message, 5 a middle message, 0 to 4 a low message.
C16_WeeklyTiers ==
    \A c \in DOMAIN sweeps :
        sweeps[c].job = "weekly" =>
            \A u \in Processed(sweeps[c]) :
                LET n == Cardinality(CompleteDates(u, today))
                    rate == CHOOSE x \in 0..1000 : IsRateOf(x, n)
                    sent == SentTo(sweeps[c], u)
                IN  /\ Len(sent) = 1
                    /\ sent[1].notification_type = "weekly_motivation"
                    /\ rate >= 850 <=> n \in {6, 7}
                    /\ (rate >= 600 /\ rate < 850) <=> n = 5
                    /\ rate < 600 <=> n \in 0..4
                    /\ n \in {6, 7} =>
                           sent[1].message
                               \in top_messages(Username(u), rate, n)
                    /\ n = 5 =>
                           sent[1].message
                               \in middle_messages(Username(u), rate)
                    /\ n \in 0..4 =>
                           sent[1].message \in low_messages(Username(u))

\* C16 witness: a weekly sweep has sent a top message to a user with 6
\* complete days and a middle message to a user with 5.
C16_Witness ==
    \E c \in DOMAIN sweeps : \E u, v \in Processed(sweeps[c]) :
        /\ sweeps[c].job = "weekly"
        /\ Cardinality(CompleteDates(u, today)) = 6
        /\ SentTo(sweeps[c], u)[1].message
               \in top_messages(Username(u), 857, 6)
        /\ Cardinality(CompleteDates(v, today)) = 5
        /\ SentTo(sweeps[c], v)[1].message
               \in middle_messages(Username(v), 714)

\* What a sweep of the kind of sw that visits only user u, and raises
\* nothing, may dispatch
AloneOut(sw, u) ==
    LET alone == [sw EXCEPT !.users = {u}, !.visited = <<>>, !.out = <<>>,
                            !.failed = {}]
    IN  {x.out : x \in IF sw.job = "daily" THEN DailyStep(alone, u)
                       ELSE WeeklyStep(alone, u)}

\* C17: when the processing of a user raises an exception in a daily or a
\* weekly sweep, the exception is caught: the sweep function does not
\* raise, the user is sent nothing, every user of the query is still
\* visited or still to be visited, and every other user, before or after
\* the failing one, is sent what a sweep without the failure sends.
C17_FailureIsolation ==
    \A c \in DOMAIN sweeps :
        LET sw == sweeps[c]
        IN  /\ sw.phase = "loop"
            /\ sw.failed \subseteq Visited(sw)
            /\ sw.users # {} => sw.users = ActiveUsers
            /\ Visited(sw) \subseteq sw.users
            /\ \A u \in sw.failed : SentTo(sw, u) = <<>>
            /\ \A u \in Processed(sw) : SentTo(sw, u) \in AloneOut(sw, u)

\* C17 witness: the processing of the first user of a sweep raised, and the
\* second user has been sent a notification.
C17_Witness ==
    \E c \in DOMAIN sweeps :
        /\ Len(sweeps[c].visited) = 2
        /\ sweeps[c].visited[1] \in sweeps[c].failed
        /\ sweeps[c].visited[2] \notin sweeps[c].failed
        /\ Len(SentTo(sweeps[c], sweeps[c].visited[2])) = 1

\* C31: in one firing of the daily or the weekly job only users with
\* is_active true are visited and sent to, no user is visited twice and no
\* user is sent more than one notification; when a weekly firing has ended
\* and neither the query of the users nor the processing of a user raised,
\* every active user has been sent exactly one notification.
C31_OneNotificationPerActiveUser ==
    \A c \in DOMAIN sweeps :
        LET sw == sweeps[c]
        IN  /\ \A u \in Visited(sw) : is_active[u]
            /\ \A i \in 1..Len(sw.out) : is_active[sw.out[i].user_id]
            /\ \A i, j \in 1..Len(sw.visited) :
                   sw.visited[i] = sw.visited[j] => i = j
            /\ \A u \in UserTable : Len(SentTo(sw, u)) <= 1
            /\ (/\ sw.job = "weekly"
                /\ sw.users = {u \in UserTable : is_active[u]}
                /\ Pending(sw) = {}
                /\ sw.failed = {})
               => \A u \in UserTable :
                      Len(SentTo(sw, u)) = IF is_active[u] THEN 1 ELSE 0

\* C31 witness: a weekly firing without an error has ended; the one active
\* user has been sent one notification and the inactive user none.
C31_Witness ==
    \E c \in DOMAIN sweeps : \E u, v \in UserTable :
        /\ sweeps[c].job = "weekly"
        /\ is_active[u] /\ ~is_active[v]
        /\ Pending(sweeps[c]) = {} /\ sweeps[c].failed = {}
        /\ sweeps[c].visited = <<u>>
        /\ Len(SentTo(sweeps[c], u)) = 1
        /\ Len(SentTo(sweeps[c], v)) = 0

-----------------------------------------------------------------------------
(* Properties of start(), stop() and the timer threads *)

\* The jobs of one kind in the job table
JobsOfKind(table, kind) == {i \in 1..Len(table) : table[i].kind = kind}

\* C18: a call of start() while the service is running registers no job and
\* spawns no thread, and after a call of start() the job table holds
\* exactly one daily and one weekly job; as long as stop() has not been
\* called, exactly one timer thread exists after it, and it is alive.
C18_StartIdempotent ==
    [][(last' # last /\ last'.op = "start") =>
          /\ running =>
                 /\ jobs' = jobs
                 /\ threads' = threads
                 /\ running'
                 /\ ~last'.created
          /\ Cardinality(JobsOfKind(jobs', "daily")) = 1
          /\ Cardinality(JobsOfKind(jobs', "weekly")) = 1
          /\ Len(jobs') = 2
          /\ (\A t \in 1..Len(threads') : ~threads'[t].stopped) =>
                 /\ Len(threads') = 1
                 /\ threads'[1].pc # "exited"
      ]_vars

\* C18 witness: start() was called while the service was running; one
\* thread exists and the job table holds two jobs.
C18_Witness ==
    /\ last.op = "start" /\ ~last.created
    /\ running
    /\ Len(threads) = 1
    /\ Len(jobs) = 2

\* C19 (as claimed): after stop() the job table is empty, and the timer
\* thread that was running when stop() was called neither passes the loop
\* test again nor starts a job after the stop: it exits at its next test.
C19_StopHaltsLoop ==
    /\ last.op = "stop" => jobs = <<>>
    /\ \A t \in 1..Len(threads) :
           threads[t].stopped => ~threads[t].resumed

\* C20 (as claimed): at most one timer thread is alive, and no two sweeps
\* of the same job type are in flight at once.
C20_SingleTimerLoop ==
    /\ Cardinality(Alive) <= 1
    /\ \A c, d \in DOMAIN sweeps :
           sweeps[c].job = sweeps[d].job => c = d

\* The calls of job functions made while the service was running: thread t
\* made its i-th call, of a job of the given kind
Firings(kind) ==
    UNION {{<<t, i>> : i \in {j \in 1..Len(threads[t].fired) :
                                  /\ threads[t].fired[j].kind = kind
                                  /\ threads[t].fired[j].running}} :
           t \in 1..Len(threads)}
Firing(f) == threads[f[1]].fired[f[2]]

\* The calendar week of day d, Monday to Sunday
WeekOf(d) == d \div 7

\* C21 (as claimed): while the service is running the daily job fires at
\* most once per calendar day and never before 20:00 of the day it fires
\* on; the weekly job fires at most once per week, and only on a Sunday at
\* or after 09:00.
C21_FiringTimes ==
    /\ \A f \in Firings("daily") : Firing(f).slot = "evening"
    /\ \A f, g \in Firings("daily") : Firing(f).day = Firing(g).day => f = g
    /\ \A f \in Firings("weekly") :
           /\ weekday(Firing(f).day) = 6
           /\ Firing(f).slot \in {"day", "evening"}
    /\ \A f, g \in Firings("weekly") :
           WeekOf(Firing(f).day) = WeekOf(Firing(g).day) => f = g

-----------------------------------------------------------------------------
(* Properties of POST /update and its request body *)

\* The text has the form YYYY-MM-DD: four digits, two digits, two digits.
HasDateForm(s) ==
    /\ Len(s) = 10
    /\ s[5] = "-" /\ s[8] = "-"
    /\ IsDigits(SubSeq(s, 1, 4)) /\ IsDigits(SubSeq(s, 6, 7))
    /\ IsDigits(SubSeq(s, 9, 10))

Malformed(r) ==
    \/ r.date = <<>>
    \/ r.type = ""
    \/ r.type \notin {"workout", "diet"}
    \/ ~HasDateForm(r.date)

\* C22 (as claimed): a POST /update whose date is missing, whose type is
\* missing or is neither 'workout' nor 'diet', or whose date does not have the
\* form YYYY-MM-DD, is answered with an error and leaves the store as it was.
C22_MalformedRejected ==
    [][(request' # request /\ Malformed(request'))
         => (request'.status >= 400 /\ records' = records)]_vars

\* C24: a successful update for a date that already has a record changes, of
\* that record, only the flag named by the type and streak_day; its other
\* flag and its cycle_start stay as they were (also 30 days or more after its
\* cycle_start), no record is created and every other record is unchanged.
C24_UpdateFrame ==
    [][(last'.op = "update" /\ ~last'.created) =>
         \E r \in records, s \in records' :
           /\ r.user_id = last'.user /\ r.date = last'.date
           /\ s.id = r.id /\ s.user_id = r.user_id /\ s.date = r.date
           /\ s.cycle_start = r.cycle_start
           /\ IF request'.type = "workout"
              THEN s.workout_logged /\ s.diet_logged = r.diet_logged
              ELSE s.diet_logged /\ s.workout_logged = r.workout_logged
           /\ records' \ {s} = records \ {r}
           /\ Cardinality(records') = Cardinality(records)]_vars

\* An existing record was updated 30 days after its cycle_start, it has one
\* flag only, and the user has another record.
C24_Witness ==
    /\ last.op = "update" /\ ~last.created /\ request.status = 200
    /\ Cardinality(records) = 2
    /\ \E r \in records :
         /\ r.user_id = last.user /\ r.date = last.date
         /\ today - r.cycle_start >= CycleLength
         /\ r.workout_logged /\ ~r.diet_logged

-----------------------------------------------------------------------------
(* Further properties of the requests served one at a time *)

SameRow(r, s) == r.id = s.id /\ r.user_id = s.user_id /\ r.date = s.date

\* C23: no step of update, reset_cycle or the clock deletes a record, and a
\* flag that is true stays true.
C23_RecordsAndFlagsMonotone ==
    [][\A r \in records : \E s \in records' :
         /\ SameRow(r, s)
         /\ r.workout_logged => s.workout_logged
         /\ r.diet_logged => s.diet_logged]_vars

\* reset_cycle has acted on a record that two updates had given both flags,
\* and the user has another record.
C23_Witness ==
    /\ last.op = "reset" /\ ~last.created
    /\ Cardinality(records) = 2
    /\ \E r \in records :
         r.date = today /\ r.workout_logged /\ r.diet_logged

\* C25: after a successful update the streak_day stored in the updated record
\* is the current streak as of today (not as of the target date) on the store
\* that holds the flag just set: the number of active days that end yesterday;
\* today itself is not counted, and after an update for yesterday it is at
\* least 1.
C25_StoredStreak ==
    last.op = "update" =>
      \A r \in FilterBy(records, last.user, last.date) :
        /\ BackwardRun(records, last.user, today) = {r.streak_day}
        /\ calculate_streak(records, last.user, today) = {r.streak_day}
        /\ ~ActiveOn(records, last.user, today - 1) => r.streak_day = 0
        /\ last.date = today - 1 => r.streak_day >= 1

\* An update for yesterday has just created yesterday's record, and the
\* record of the day before makes the stored streak 2.
C25_Witness ==
    /\ last.op = "update" /\ last.created /\ last.date = today - 1
    /\ \E r \in FilterBy(records, last.user, last.date) : r.streak_day = 2

\* C26: a cycle never spans more than 30 days: after any updates, in any
\* order of dates, and any reset_cycle, every stored record has
\* date - cycle_start <= 29.
C26_CycleSpan ==
    \A r \in records : r.date - r.cycle_start <= CycleLength - 1

\* A record on the last day of its cycle, 29 days after the cycle's start
C26_Witness ==
    \E r \in records : r.date - r.cycle_start = CycleLength - 1

\* C27 (as claimed): on every query day, with at least one record the
\* reported cycle_day lies in 1..30 and cycle_day + days_remaining = 30;
\* without a record cycle_day is 0 and days_remaining is 30.
C27_CycleDayRange ==
    \A u \in Users, t \in QueryDays :
        \A info \in cycle_info(records, u, t) :
            IF UserRows(records, u) # {}
            THEN /\ info.cycle_day \in 1..CycleLength
                 /\ info.cycle_day + info.days_remaining = CycleLength
            ELSE /\ info.cycle_day = 0
                 /\ info.days_remaining = CycleLength

\* C27 (amended): as claimed when the cycle_start of the max-date record is
\* not after the query day; when it is after the query day (the record was
\* logged for a later date), cycle_day is (t - cycle_start) + 1, which is 0
\* or negative, and days_remaining is 30.
C27_CycleDay ==
    \A u \in Users, t \in QueryDays :
        \A info \in cycle_info(records, u, t) :
            IF UserRows(records, u) = {}
            THEN /\ info.cycle_day = 0
                 /\ info.days_remaining = CycleLength
            ELSE IF info.cycle_start <= t
            THEN /\ info.cycle_day \in 1..CycleLength
                 /\ info.cycle_day + info.days_remaining = CycleLength
            ELSE /\ info.cycle_day = (t - info.cycle_start) + 1
                 /\ info.cycle_day <= 0
                 /\ info.days_remaining = CycleLength

\* The second day of a cycle: cycle_day 2, 28 days remaining
C27_Witness ==
    \E u \in Users : \E info \in cycle_info(records, u, today) :
        /\ UserRows(records, u) # {}
        /\ info.cycle_start = today - 1
        /\ info.cycle_day = 2
        /\ info.days_remaining = CycleLength - 2

\* C28 (as claimed): right after a successful reset_cycle on day T, whatever
\* the records were before, the data query on day T reports cycle_start = T,
\* cycle_day = 1 and days_remaining = 29, and a record then created for a
\* date in T+1 .. T+29 gets cycle_start = T.
C28_ResetVisible ==
    last.op = "reset" =>
      /\ \A info \in cycle_info(records, last.user, today) :
           /\ info.cycle_start = today
           /\ info.cycle_day = 1
           /\ info.days_remaining = CycleLength - 1
      /\ \A d \in (today + 1)..(today + CycleLength - 1) :
           \A g \in get_or_create_consistency_record(records, last.user, d) :
             g.created => g.record.cycle_start = today

-----------------------------------------------------------------------------
(* Properties of the weekly job and the weekly summary *)

\* C30 (as claimed): on every reachable record set and every query day, the
\* number of complete days the weekly motivation job counts over
\* [t - 6, t] is the complete_days of the weekly summary, and the completion
\* rate lies between 0 and 100 percent.
C30_WeeklyCountsAgree ==
    \A u \in Users, t \in QueryDays :
        /\ scheduler_complete_days(records, u, t)
               = weekly_stats(records, u, t).complete_days
        /\ Percentage(scheduler_complete_days(records, u, t), WeekLength)
               \in 0..1000
        /\ weekly_stats(records, u, t).completion_percentage \in 0..1000

-----------------------------------------------------------------------------
(* Properties of the requests of several users *)

\* The cycle_day and days_remaining the cycle info may report
CycleDays(recs, u, t) ==
    {<<info.cycle_day, info.days_remaining>> : info \in cycle_info(recs, u, t)}

\* C32: an update or a reset_cycle for user A creates or changes only rows
\* of A, the cycle_start of a row it creates is the one the rows of A alone
\* determine, and for every other user B the rows, the current streak, the
\* best streak, the window statistics and the cycle info are the same before
\* and after.
C32_UsersIsolated ==
    [][last'.op \in {"update", "reset"} =>
         LET A == last'.user
         IN  /\ \A r \in (records' \ records) \cup (records \ records') :
                    r.user_id = A
             /\ last'.created =>
                  \A r \in records' \ records :
                      IF last'.op = "reset" THEN r.cycle_start = today
                      ELSE \E g \in get_or_create_consistency_record(
                                        UserRows(records, A), A, last'.date) :
                               g.created
                               /\ g.record.cycle_start = r.cycle_start
             /\ \A B \in UserTable \ {A} :
                  /\ UserRows(records', B) = UserRows(records, B)
                  /\ best_streak(records', B) = best_streak(records, B)
                  /\ \A t \in QueryDays :
                       /\ calculate_streak(records', B, t)
                              = calculate_streak(records, B, t)
                       /\ statistics(records', B, t) = statistics(records, B, t)
                       /\ CycleDays(records', B, t) = CycleDays(records, B, t)
                       /\ UserRows(records, B) # {} =>
                              cycle_info(records', B, t)
                                  = cycle_info(records, B, t)
        ]_vars

\* C32 witness: an update has created a row of one user while another user
\* has a row of a later date with another cycle_start.
C32_Witness ==
    /\ last.op = "update" /\ last.created
    /\ \E r, s \in records :
         /\ r.user_id = last.user /\ r.date = last.date
         /\ s.user_id # last.user
         /\ s.date > r.date
         /\ s.cycle_start # r.cycle_start

-----------------------------------------------------------------------------
(* Properties of the backward walk of the current streak *)

\* The dates before day t on which user u has an active row
ActiveDatesBefore(recs, u, t) ==
    {r.date : r \in {x \in UserRows(recs, u) : IsActive(x) /\ x.date < t}}

\* The walk of request q has counted the days it has passed, all of them
\* distinct active dates before today.
WalkBounded(q) ==
    /\ q.check_date = (today - 1) - q.current_streak
    /\ q.current_streak
           <= Cardinality(ActiveDatesBefore(SessionView(q), q.user, today))

Walking == \E q \in reqs : q.pc = "streak"

\* C33: the backward walk of the current streak ends, and its count never
\* exceeds the number of distinct dates before today on which the user has an
\* active row: this holds of the walk of every request, turn by turn, and of
\* the value calculate_streak and _calculate_streak return on every query day.
C33_WalkTerminatesBounded ==
    /\ [](\A q \in reqs : WalkBounded(q))
    /\ [](\A u \in Users, t \in QueryDays :
            \A k \in calculate_streak(records, u, t)
                       \cup _calculate_streak(records, u, t) :
                k <= Cardinality(ActiveDatesBefore(records, u, t)))
    /\ [](Walking => <>(~Walking))

\* C33 witness: a walk has counted yesterday, stopped at the day before and
\* the request has ended.
C33_Witness ==
    \E q \in reqs :
        /\ q.pc = "done"
        /\ q.current_streak = 1
        /\ q.check_date = today - 2

-----------------------------------------------------------------------------
(* Algebraic properties of update *)

\* The tables a second upload may leave after a first one, on day t
Then(results, u, d, upload_type, t) ==
    UNION {{res.records : res \in update_result(x, u, d, upload_type, t)} :
              x \in results}

\* The flags and cycle_start of the rows of (u, d)
FlagsAndCycle(recs, u, d) ==
    {<<r.workout_logged, r.diet_logged, r.cycle_start>> :
        r \in FilterBy(recs, u, d)}

\* C34: on every reachable table, for every date D a request may name and
\* today fixed: uploading workout for D twice leaves the row of D with the
\* flags and cycle_start that uploading it once leaves; workout then diet
\* and diet then workout leave the same single row for D, with both flags
\* true and the same cycle_start, and the same table.
C34_UpdateIdempotentCommutes ==
    \A u \in Users, D \in TargetDates :
        LET once == Then({records}, u, D, "workout", today)
            twice == Then(once, u, D, "workout", today)
            wd == Then(once, u, D, "diet", today)
            dw == Then(Then({records}, u, D, "diet", today),
                       u, D, "workout", today)
        IN  /\ \A x \in once : \A y \in Then({x}, u, D, "workout", today) :
                   /\ FlagsAndCycle(y, u, D) = FlagsAndCycle(x, u, D)
                   /\ Cardinality(y) = Cardinality(x)
            /\ twice # {}
            /\ \A x \in wd : \A y \in dw :
                   /\ Cardinality(FilterBy(x, u, D)) = 1
                   /\ \A r \in FilterBy(x, u, D) :
                          r.workout_logged /\ r.diet_logged
                   /\ FlagsAndCycle(x, u, D) = FlagsAndCycle(y, u, D)
                   /\ x = y

\* C34 witness: the date of the last update has a row with both flags, set
\* by two uploads, and the row joined the cycle of an earlier row.
C34_Witness ==
    /\ last.op = "update" /\ ~last.created
    /\ \E r \in FilterBy(records, last.user, last.date) :
         /\ r.workout_logged /\ r.diet_logged
         /\ r.cycle_start < r.date

=============================================================================
